---- MODULE Spec2Model ----
(***************************************************************************)
(* Model of the PH vaccine tracker (src/main.py): the Streamlit script     *)
(* that loads the OWID vaccination table, filters it to one country,       *)
(* shows the latest numbers and forecasts the herd-immunity date.          *)
(*                                                                         *)
(* Each run of the script renders one page.  The state is the remote      *)
(* table, the st.cache memo of load_data, and what the last run produced. *)
(***************************************************************************)
EXTENDS Integers, Sequences, FiniteSets, TLC

VARIABLES
    csv,                    \* rows of the remote vaccinations.csv
    selection,              \* page chosen in the sidebar radio
    cache,                  \* st.cache memo of load_data
    recent,                 \* result of get_latest_numbers in the last run
    prediction_date_range,  \* dates generated for the forecast
    prediction_values,      \* values the fitted model forecast
    predictions,            \* the predictions frame after the filter
    herd_immunity_date,     \* the date put in the chart title
    exception               \* what the last run raised

vars == <<csv, selection, cache, recent, prediction_date_range,
          prediction_values, predictions, herd_immunity_date, exception>>

----------------------------------------------------------------------------
(* Bounds of the model *)

\* largest number of rows in the remote table when the loader is examined
MaxRows == 3

\* largest number of rows in the remote table when the forecast is examined
MaxForecastRows == 2

\* forecast horizon in days; the script sets 1000 (main.py line 99), the
\* model forecasts this many days so that every forecast can be enumerated
forecast_horizon == 3

----------------------------------------------------------------------------
(* Program constants *)

population == 111265058

\* herd_immunity_factor = 0.7, kept as a fraction
herd_immunity_factor_num == 7
herd_immunity_factor_den == 10

\* round(x / d) for a positive fraction that is not a tie
round(n, d) == (2 * n + d) \div (2 * d)

target_vaccination ==
    round(population * herd_immunity_factor_num, herd_immunity_factor_den)

country_filter == "PHL"

list_of_pages == <<"Where We Are", "Forecast", "Methodology">>

----------------------------------------------------------------------------
(* Values *)

\* a missing cell of the table (NaN)
NA == -1

\* no date / no record produced
NoDate == NA
NoRecent == [date |-> NoDate, people_vaccinated |-> NA,
             people_fully_vaccinated |-> NA]
NotCached == [hit |-> FALSE, value |-> <<>>]

\* date strings of the table, "YYYY-MM-DD" as <<year, month, day>>
RawDates == { <<2021, 2, 28>>, <<2021, 3, 1>>, <<2021, 3, 3>> }

IsoCodes == { "PHL", "USA" }

\* days before the first of each month of a common year
DaysBeforeMonth == <<0, 31, 59, 90, 120, 151, 181, 212, 243, 273, 304, 334>>

\* pd.to_datetime on a date string: the calendar day, as the number of days
\* since 2020-12-31 (2021 and 2022 are common years)
to_datetime(s) == 365 * (s[1] - 2021) + DaysBeforeMonth[s[2]] + s[3]

\* pd.Timedelta(days = n) added to a date
PlusDays(d, n) == d + n

----------------------------------------------------------------------------
(* Sequence helpers *)

RECURSIVE SelectRows(_, _, _)
\* boolean-mask indexing frame[mask]: the rows whose mask is TRUE, in order
SelectRows(frame, mask, i) ==
    IF i > Len(frame) THEN <<>>
    ELSE (IF mask[i] THEN <<frame[i]>> ELSE <<>>)
         \o SelectRows(frame, mask, i + 1)

\* max(...) of a non-empty collection of dates
MaxOf(S) == CHOOSE m \in S : \A x \in S : x <= m

----------------------------------------------------------------------------
(* load_data *)

\* vaccination[vaccination["iso_code"] == country_filter]
FilterCountry(table) ==
    SelectRows(table,
               [i \in 1..Len(table) |-> table[i].iso_code = country_filter], 1)

\* vaccination[columns], with the date column parsed by pd.to_datetime
ProjectColumns(table) ==
    [i \in 1..Len(table) |->
        [date |-> to_datetime(table[i].date),
         people_vaccinated |-> table[i].people_vaccinated,
         people_fully_vaccinated |-> table[i].people_fully_vaccinated]]

RECURSIVE LastValid(_, _)
\* the last non-missing value of a column at or above row i, NA if none
LastValid(column, i) ==
    IF i = 0 THEN NA
    ELSE IF column[i] # NA THEN column[i]
    ELSE LastValid(column, i - 1)

\* Series.ffill(): each missing cell takes the last valid value above it, in
\* row order
ffill(column) == [i \in 1..Len(column) |-> LastValid(column, i)]

\* fillna(0) on one cell
fillna(v) == IF v = NA THEN 0 ELSE v

\* load_data(): the frame it returns for a given remote table
load_data(table) ==
    LET vaccination == ProjectColumns(FilterCountry(table))
        pv  == ffill([i \in 1..Len(vaccination) |->
                         vaccination[i].people_vaccinated])
        pfv == ffill([i \in 1..Len(vaccination) |->
                         vaccination[i].people_fully_vaccinated])
    IN  [i \in 1..Len(vaccination) |->
            [date |-> vaccination[i].date,
             people_vaccinated |-> fillna(pv[i]),
             people_fully_vaccinated |-> fillna(pfv[i])]]

\* @st.cache: the memoised call; the body runs only on a miss
cached_load_data == IF cache.hit THEN cache.value ELSE load_data(csv)

----------------------------------------------------------------------------
(* get_latest_numbers *)

\* the last row of the frame, whatever its date
LastRowOnly(vaccination) == <<vaccination[Len(vaccination)]>>

\* recent_date = max(vaccination["date"]) and the rows at that date
recent_data(vaccination) ==
    LET recent_date == MaxOf({vaccination[i].date : i \in 1..Len(vaccination)})
    IN  SelectRows(vaccination,
                   [i \in 1..Len(vaccination) |->
                       vaccination[i].date = recent_date], 1)

\* get_latest_numbers(vaccination): what it raises and what it returns.
\* max() of an empty column raises ValueError; int() of a selection that is
\* not a single row raises TypeError.
get_latest_numbers(vaccination) ==
    IF Len(vaccination) = 0
    THEN [raised |-> "ValueError", value |-> NoRecent]
    ELSE LET rows == recent_data(vaccination)
         IN  IF Len(rows) # 1
             THEN [raised |-> "TypeError", value |-> NoRecent]
             ELSE [raised |-> "None",
                   value |-> [date |-> rows[1].date,
                              people_vaccinated |-> rows[1].people_vaccinated,
                              people_fully_vaccinated |->
                                  rows[1].people_fully_vaccinated]]

----------------------------------------------------------------------------
(* predictive_analytics *)

\* a forecast that starts on the last observed day itself
predict_start_same_day(train_end) == train_end

\* predict_start = train_end + pd.Timedelta(days=1)
predict_start(train_end) == PlusDays(train_end, 1)

\* predict_end = predict_start + pd.Timedelta(days=forecast_horizon - 1)
predict_end(start) == PlusDays(start, forecast_horizon - 1)

\* pd.date_range(start, end): every calendar day from start to end
date_range(start, end) == [i \in 1..(end - start + 1) |-> PlusDays(start, i - 1)]

\* vaccination[vaccination["people_fully_vaccinated"] != 0], on the two
\* columns kept for training
DropZeros(vaccination) ==
    SelectRows(vaccination,
               [i \in 1..Len(vaccination) |->
                   vaccination[i].people_fully_vaccinated # 0], 1)

\* values a forecast point can take: just below the target and at it
PredictionValues == { target_vaccination - 1, target_vaccination }

\* the fitted model as a black box: HWES(...).fit(...).forecast(horizon)
\* either raises (shown as the empty forecast) or returns forecast_horizon
\* values; nothing can be forecast from an empty training series
HWES(train) ==
    IF Len(train) = 0 THEN { <<>> }
    ELSE { <<>> } \cup [1..forecast_horizon -> PredictionValues]

\* a filter that also keeps the points at the target
vaccinated_filter_inclusive(value) == value <= target_vaccination

\* predictions["people_fully_vaccinated"] < target_vaccination
vaccinated_filter(value) == value < target_vaccination

\* the predictions frame: dates paired with the forecast values
PredictionsFrame(dates, values) ==
    [i \in 1..Len(dates) |->
        [date |-> dates[i], people_fully_vaccinated |-> values[i]]]

\* predictions[vaccinated_filter]
FilterPredictions(frame) ==
    SelectRows(frame,
               [i \in 1..Len(frame) |->
                   vaccinated_filter(frame[i].people_fully_vaccinated)], 1)

\* herd_immunity_date = max(predictions.index) + pd.Timedelta(days=1)
HerdImmunityDate(frame) ==
    PlusDays(MaxOf({frame[i].date : i \in 1..Len(frame)}), 1)

----------------------------------------------------------------------------
(* Remote tables *)

\* a row is identified by its country and its date
Keys == IsoCodes \X RawDates

KeySeqs(n) ==
    { k \in [1..n -> Keys] : \A i, j \in 1..n : i # j => k[i] # k[j] }

\* the counts another country's rows carry
ForeignCount == 9

\* tables of at most rows rows, in any row order, one row per country and
\* date, whose rows of the filtered country take their two counts from PV
\* and PFV
TableIs(table, rows, PV, PFV) ==
    \E n \in 0..rows : \E k \in KeySeqs(n) : \E pv \in [1..n -> PV] :
      \E pfv \in [1..n -> PFV] :
        /\ \A i \in 1..n : k[i][1] # country_filter =>
              /\ pv[i] = ForeignCount
              /\ pfv[i] = ForeignCount
        /\ \A i \in 1..n : k[i][1] = country_filter =>
              /\ pv[i] # ForeignCount
              /\ pfv[i] # ForeignCount
        /\ table = [i \in 1..n |->
                      [iso_code |-> k[i][1], date |-> k[i][2],
                       people_vaccinated |-> pv[i],
                       people_fully_vaccinated |-> pfv[i]]]

----------------------------------------------------------------------------
(* The script *)

\* state before the first run: the radio shows its first option
NotRun ==
    /\ selection = list_of_pages[1]
    /\ cache = NotCached
    /\ recent = NoRecent
    /\ prediction_date_range = <<>>
    /\ prediction_values = <<>>
    /\ predictions = <<>>
    /\ herd_immunity_date = NoDate
    /\ exception = "NotRun"

\* tables with every pattern of missing counts
InitLoad ==
    /\ TableIs(csv, MaxRows, {NA, 1, 2, ForeignCount}, {NA, 0, 3, ForeignCount})
    /\ NotRun

\* tables without missing counts, below and at the target
Init ==
    /\ TableIs(csv, MaxForecastRows, {1, ForeignCount},
               {0, 5, target_vaccination, ForeignCount})
    /\ NotRun

\* selection == "Where We Are": descriptive_analytics()
descriptive_analytics ==
    LET vaccination == cached_load_data
        latest == get_latest_numbers(vaccination)
    IN  /\ selection' = list_of_pages[1]
        /\ cache' = [hit |-> TRUE, value |-> vaccination]
        /\ recent' = latest.value
        /\ exception' = latest.raised
        /\ prediction_date_range' = <<>>
        /\ prediction_values' = <<>>
        /\ predictions' = <<>>
        /\ herd_immunity_date' = NoDate
        /\ UNCHANGED csv

\* selection == "Forecast": predictive_analytics()
predictive_analytics ==
    LET vaccination == cached_load_data
    IN  /\ selection' = list_of_pages[2]
        /\ cache' = [hit |-> TRUE, value |-> vaccination]
        /\ recent' = NoRecent
        /\ UNCHANGED csv
        /\ IF Len(vaccination) = 0
           THEN \* max() of the empty date column raises
                /\ exception' = "ValueError"
                /\ prediction_date_range' = <<>>
                /\ prediction_values' = <<>>
                /\ predictions' = <<>>
                /\ herd_immunity_date' = NoDate
           ELSE LET train_end ==
                        MaxOf({vaccination[i].date : i \in 1..Len(vaccination)})
                    start == predict_start(train_end)
                    dates == date_range(start, predict_end(start))
                    train == DropZeros(vaccination)
                IN  /\ prediction_date_range' = dates
                    /\ \E forecast \in HWES(train) :
                         /\ prediction_values' = forecast
                         /\ IF forecast = <<>>
                            THEN \* the model raised while built or fitted
                                 /\ exception' = "ModelError"
                                 /\ predictions' = <<>>
                                 /\ herd_immunity_date' = NoDate
                            ELSE LET below == FilterPredictions(
                                         PredictionsFrame(dates, forecast))
                                 IN  /\ predictions' = below
                                     /\ IF Len(below) = 0
                                        THEN \* max() of the empty index raises
                                             /\ exception' = "ValueError"
                                             /\ herd_immunity_date' = NoDate
                                        ELSE /\ exception' = "None"
                                             /\ herd_immunity_date' =
                                                    HerdImmunityDate(below)

\* selection == "Methodology": methodology()
methodology ==
    /\ selection' = list_of_pages[3]
    /\ exception' = "None"
    /\ recent' = NoRecent
    /\ prediction_date_range' = <<>>
    /\ prediction_values' = <<>>
    /\ predictions' = <<>>
    /\ herd_immunity_date' = NoDate
    /\ UNCHANGED <<csv, cache>>

Next == descriptive_analytics \/ predictive_analytics \/ methodology

Spec == Init /\ [][Next]_vars

NextLoad == descriptive_analytics \/ methodology

SpecLoad == InitLoad /\ [][NextLoad]_vars

----------------------------------------------------------------------------
(* Vocabulary of the properties *)

\* the last run rendered the given page
Ran(page) == exception # "NotRun" /\ selection = page

\* the last run was the forecast page and the model returned a forecast
ForecastBuilt == Ran(list_of_pages[2]) /\ prediction_values # <<>>

\* the last run was the forecast page and it put a date in the chart title
DateProduced == Ran(list_of_pages[2]) /\ exception = "None"

\* the series load_data returned
Loaded == cache.value

LoadedDates == { Loaded[i].date : i \in 1..Len(Loaded) }

\* the last observed date of the loaded series, and its record
LastObservedDate == MaxOf(LoadedDates)
LastObserved == CHOOSE r \in { Loaded[i] : i \in 1..Len(Loaded) } :
                    r.date = LastObservedDate

\* the rows of the filtered country in the remote table
CountryRows == { csv[i] : i \in { j \in 1..Len(csv) :
                                    csv[j].iso_code = country_filter } }

\* forecast points at or above the target
AtOrAbove == { i \in 1..Len(prediction_values) :
                 prediction_values[i] >= target_vaccination }

\* the value the fill step must give column col at date d: the input value
\* when present, else the value at the nearest earlier date that has one,
\* else zero
FilledInDateOrder(col, d) ==
    LET here == CHOOSE r \in CountryRows : to_datetime(r.date) = d
        earlier == { r \in CountryRows :
                       to_datetime(r.date) < d /\ r[col] # NA }
    IN  IF here[col] # NA THEN here[col]
        ELSE IF earlier = {} THEN 0
        ELSE (CHOOSE r \in earlier :
                 \A q \in earlier :
                    to_datetime(q.date) <= to_datetime(r.date))[col]

----------------------------------------------------------------------------
(* Properties *)

\* C1: whenever a forecast with at least one point at or above the target
\* yields a herd-immunity date, that date is the first forecast date, in
\* date order, whose predicted value is at or above the target.
C1_FirstDateAtOrAboveTarget ==
    (ForecastBuilt /\ DateProduced /\ AtOrAbove # {}) =>
        herd_immunity_date =
            prediction_date_range[CHOOSE i \in AtOrAbove :
                                     \A j \in AtOrAbove : i <= j]

\* C2: when every forecast point is below the target the estimate is
\* undetermined: no calendar date is produced as the herd-immunity date.
C2_UndeterminedWhenNeverReached ==
    (ForecastBuilt /\ AtOrAbove = {}) => herd_immunity_date = NoDate

\* C3: when the last observed fully-vaccinated count is already at or above
\* the target and no forecast point is below it, the forecast page completes
\* without failing.
C3_AlreadyPassedCompletes ==
    ( /\ ForecastBuilt
      /\ LastObserved.people_fully_vaccinated >= target_vaccination
      /\ AtOrAbove = 1..Len(prediction_values) )
    => exception = "None"

\* C4: the series load_data returns has strictly increasing dates, whatever
\* the order of the rows of the table.
C4_DatesStrictlyIncreasing ==
    cache.hit =>
        \A i \in 1..(Len(Loaded) - 1) : Loaded[i].date < Loaded[i + 1].date

\* C5: in the series load_data returns no count is missing: a count present
\* in the table is unchanged, a missing one equals, per column, the count
\* at the nearest earlier date that has one, or zero when there is none.
C5_FilledInDateOrder ==
    cache.hit =>
        \A i \in 1..Len(Loaded) :
            /\ Loaded[i].people_vaccinated =
                   FilledInDateOrder("people_vaccinated", Loaded[i].date)
            /\ Loaded[i].people_fully_vaccinated =
                   FilledInDateOrder("people_fully_vaccinated", Loaded[i].date)

\* C6: when no row of the table matches the country filter, loading fails
\* with NoDataForCountryError and no series is returned.
C6_NoDataForCountryError ==
    (Ran(list_of_pages[1]) /\ CountryRows = {}) =>
        (exception = "NoDataForCountryError" /\ ~cache.hit)

\* C7: on a loaded series whose fully-vaccinated counts are all zero the
\* forecast page fails with InsufficientDataError, while the latest-numbers
\* page succeeds and shows the latest date with its counts.
C7_InsufficientDataError ==
    LET AllZero == /\ cache.hit
                   /\ Len(Loaded) > 0
                   /\ \A i \in 1..Len(Loaded) :
                         Loaded[i].people_fully_vaccinated = 0
    IN  /\ (Ran(list_of_pages[2]) /\ AllZero) =>
               exception = "InsufficientDataError"
        /\ (Ran(list_of_pages[1]) /\ AllZero) =>
               (exception = "None" /\ recent = LastObserved)

\* C8: on a non-empty series get_latest_numbers succeeds and returns the
\* greatest date of the series with the two counts of the record at that
\* date; on a series of one record it returns that record.
C8_LatestIsRecordAtMaxDate ==
    (Ran(list_of_pages[1]) /\ Len(Loaded) > 0) =>
        /\ exception = "None"
        /\ recent.date = LastObservedDate
        /\ \E i \in 1..Len(Loaded) :
              /\ Loaded[i].date = recent.date
              /\ Loaded[i].people_vaccinated = recent.people_vaccinated
              /\ Loaded[i].people_fully_vaccinated =
                     recent.people_fully_vaccinated
        /\ Len(Loaded) = 1 => recent = Loaded[1]

\* C8 witness: the latest numbers were taken from a series whose record at
\* the greatest date is not its last row.
C8_Witness ==
    /\ Ran(list_of_pages[1])
    /\ Len(Loaded) >= 2
    /\ Loaded[1].date = LastObservedDate
    /\ recent = Loaded[1]
    /\ Loaded[Len(Loaded)].people_fully_vaccinated
           # recent.people_fully_vaccinated

\* C9 as stated: the series the forecast page exposes, after its
\* below-target filter, has exactly forecast_horizon entries on consecutive
\* dates starting the day after the last observed date.
C9_ExposedSeriesHasHorizonEntries ==
    DateProduced =>
        /\ Len(predictions) = forecast_horizon
        /\ predictions[1].date = PlusDays(LastObservedDate, 1)
        /\ \A i \in 1..(Len(predictions) - 1) :
              predictions[i + 1].date = PlusDays(predictions[i].date, 1)

\* C9 amended: the forecast series as built, before the below-target filter,
\* has exactly forecast_horizon entries on consecutive dates starting the
\* day after the last observed date; the exposed series holds exactly its
\* entries below the target, in order.
C9_BuiltSeriesHasHorizonEntries ==
    ForecastBuilt =>
        /\ Len(prediction_date_range) = forecast_horizon
        /\ Len(prediction_values) = forecast_horizon
        /\ prediction_date_range[1] = PlusDays(LastObservedDate, 1)
        /\ \A i \in 1..(forecast_horizon - 1) :
              prediction_date_range[i + 1] =
                  PlusDays(prediction_date_range[i], 1)
        /\ Len(predictions) =
               Cardinality((1..forecast_horizon) \ AtOrAbove)
        /\ \A i \in 1..Len(predictions) :
              /\ predictions[i].people_fully_vaccinated < target_vaccination
              /\ \E j \in 1..forecast_horizon :
                    /\ predictions[i].date = prediction_date_range[j]
                    /\ predictions[i].people_fully_vaccinated =
                           prediction_values[j]
        /\ \A i \in 1..(Len(predictions) - 1) :
              predictions[i].date < predictions[i + 1].date

\* C9 witness: a forecast was built, a date was produced and the exposed
\* series is shorter than the built one.
C9_Witness ==
    /\ ForecastBuilt
    /\ DateProduced
    /\ Len(prediction_values) = forecast_horizon
    /\ Len(predictions) < forecast_horizon

\* C10: a herd-immunity date, when produced, is the day after a forecast
\* date whose predicted value is below the target; it lies between the last
\* observed date plus 2 days and plus forecast_horizon + 1 days, and is
\* never the first forecast date.
C10_DateFollowsBelowTargetPoint ==
    DateProduced =>
        /\ \E i \in 1..Len(prediction_values) :
              /\ prediction_values[i] < target_vaccination
              /\ herd_immunity_date = PlusDays(prediction_date_range[i], 1)
        /\ herd_immunity_date >= PlusDays(LastObservedDate, 2)
        /\ herd_immunity_date <= PlusDays(LastObservedDate, forecast_horizon + 1)
        /\ herd_immunity_date # PlusDays(LastObservedDate, 1)

\* C10 witness: a date was produced although the first forecast point was
\* already at the target.
C10_Witness ==
    /\ DateProduced
    /\ herd_immunity_date # NoDate
    /\ prediction_values[1] >= target_vaccination

====
